---- MODULE Spec2Model ----
(***************************************************************************)
(* Model of script/warsector.js: a wireframe renderer with a first-person  *)
(* camera driven by held keys.                                             *)
(*                                                                         *)
(* Number representation.  JavaScript numbers are modelled as exact        *)
(* integers and rationals:                                                 *)
(*   - timestamps and elapsed time are in milliseconds; the variable       *)
(*     `seconds` holds the value of the local `seconds` times 1000;        *)
(*   - angles are in units of 1/6000 of a full turn (TwoPi = 6000), so     *)
(*     that Camera.angularSpeed = pi/3 rad/s is 1000 units per second;     *)
(*   - Math.cos / Math.sin are tabulated at the multiples of a quarter     *)
(*     turn, where they are exactly -1, 0 or 1; ticks are therefore        *)
(*     1500 ms apart (a quarter turn of turning, 1500 world units of       *)
(*     movement);                                                          *)
(*   - screen coordinates are rationals [n, d].                            *)
(***************************************************************************)
EXTENDS Integers, Sequences, FiniteSets, TLC

VARIABLES then, keysDown, camera, projection, transformed, strokes,
          calls, seconds, frame, now, prevNow, physDown,
          shapeArgs, shapeObj, shapePc

vars == <<then, keysDown, camera, projection, transformed, strokes,
          calls, seconds, frame, now, prevNow, physDown,
          shapeArgs, shapeObj, shapePc>>

programVars == <<then, keysDown, camera, projection, transformed, strokes,
                 calls, seconds, frame, now, prevNow, physDown>>

shapeVars == <<shapeArgs, shapeObj, shapePc>>

----------------------------------------------------------------------------
(* Bounds *)

MaxTicks == 3

MaxVertices == 2

MaxEdgeEntries == 1

MaxFanout == 2

\* timestamps of the first tick, and the gaps between later ticks (ms)
FirstNows == {0, 1500}

TickGaps == {0, 1500}

----------------------------------------------------------------------------
(* Numbers *)

TwoPi == 6000

QuarterTurn == TwoPi \div 4

\* JavaScript's % : the result takes the sign of the dividend
JsRem(a, n) == IF a >= 0 THEN a % n ELSE -((-a) % n)

modNoWrap(a, n) == JsRem(a, n)

mod(a, n) == JsRem(JsRem(a, n) + n, n)

\* Math.cos and Math.sin at multiples of a quarter turn
Math_cos(a) ==
    LET r == ((a % TwoPi) + TwoPi) % TwoPi
    IN CASE r = 0 -> 1
         [] r = QuarterTurn -> 0
         [] r = 2 * QuarterTurn -> -1
         [] r = 3 * QuarterTurn -> 0

Math_sin(a) ==
    LET r == ((a % TwoPi) + TwoPi) % TwoPi
    IN CASE r = 0 -> 0
         [] r = QuarterTurn -> 1
         [] r = 2 * QuarterTurn -> 0
         [] r = 3 * QuarterTurn -> -1

\* exact rationals n/d in lowest terms, d >= 0; d = 0 stands for the
\* results of a division by zero (n/0: an infinity, 0/0: NaN)
Abs(k) == IF k < 0 THEN -k ELSE k

RECURSIVE GCD(_, _)
GCD(a, b) == IF b = 0 THEN a ELSE GCD(b, a % b)

Rat(n, d) ==
    LET g == GCD(Abs(n), Abs(d))
    IN IF g = 0 THEN [n |-> 0, d |-> 0]
       ELSE IF d < 0 THEN [n |-> (-n) \div g, d |-> (-d) \div g]
       ELSE [n |-> n \div g, d |-> d \div g]

R(k) == [n |-> k, d |-> 1]

RMul(a, b) == Rat(a.n * b.n, a.d * b.d)

RDiv(a, b) == Rat(a.n * b.d, a.d * b.n)

RSub(a, b) == Rat(a.n * b.d - b.n * a.d, a.d * b.d)

REq(a, b) == a.n * b.d = b.n * a.d

----------------------------------------------------------------------------
(* Environment: the canvas element and the keyboard *)

canvas == [width |-> 800, height |-> 600]

keysToCapture ==
    [c \in {37, 38, 39, 40, 65, 76, 80, 81} |->
        CASE c = 37 -> "ArrowLeft"
          [] c = 38 -> "ArrowUp"
          [] c = 39 -> "ArrowRight"
          [] c = 40 -> "ArrowDown"
          [] c = 65 -> "a"
          [] c = 76 -> "l"
          [] c = 80 -> "p"
          [] c = 81 -> "q"]

\* keyboard events; key = "" stands for an event without e.key
KeyEvents ==
    { [key |-> "ArrowLeft",  keyCode |-> 37],
      [key |-> "",           keyCode |-> 37],
      [key |-> "ArrowUp",    keyCode |-> 38],
      [key |-> "ArrowRight", keyCode |-> 39],
      [key |-> "ArrowDown",  keyCode |-> 40],
      [key |-> "x",          keyCode |-> 88],
      [key |-> "",           keyCode |-> 88] }

KeyCodes == {e.keyCode : e \in KeyEvents}

\* the key codes of the events that init's table recognizes
CapturedCodes == KeyCodes \cap DOMAIN keysToCapture

\* e.key || keysToCapture[e.keyCode]   ("" when the result is undefined)
eventKey(e) ==
    IF e.key # "" THEN e.key
    ELSE IF e.keyCode \in DOMAIN keysToCapture THEN keysToCapture[e.keyCode]
    ELSE ""

keydownToggle(kd, e) ==
    LET key == eventKey(e)
    IN IF key # "" THEN (IF key \in kd THEN kd \ {key} ELSE kd \cup {key})
       ELSE kd

keydown(kd, e) ==
    LET key == eventKey(e)
    IN IF key # "" THEN kd \cup {key} ELSE kd

keyup(kd, e) ==
    LET key == eventKey(e)
    IN IF key # "" THEN kd \ {key} ELSE kd

----------------------------------------------------------------------------
(* Camera *)

Camera_speed == 1000

Camera_angularSpeed == TwoPi \div 6

Camera_focalLength == RDiv(R(canvas.width), R(2))

updateTransform(cam) ==
    [cam EXCEPT !.transform = [cos |-> Math_cos(-cam.yaw),
                               sin |-> Math_sin(-cam.yaw)]]

Camera(x, y, z, yaw) ==
    updateTransform([x |-> x, y |-> y, z |-> z, yaw |-> yaw,
                     transform |-> [cos |-> 0, sin |-> 0]])

\* secs is in milliseconds
move(cam, secs, direction) ==
    LET d0 == (secs * Camera_speed) \div 1000
        distance == IF direction = "backwards" THEN -d0 ELSE d0
    IN [cam EXCEPT !.x = cam.x + distance * Math_cos(cam.yaw),
                   !.y = cam.y + distance * Math_sin(cam.yaw)]

turnStale(cam, secs, direction) ==
    LET a0 == (secs * Camera_angularSpeed) \div 1000
        angle == IF direction = "right" THEN -a0 ELSE a0
    IN [cam EXCEPT !.yaw = mod(cam.yaw + angle, TwoPi)]

turn(cam, secs, direction) ==
    LET a0 == (secs * Camera_angularSpeed) \div 1000
        angle == IF direction = "right" THEN -a0 ELSE a0
    IN updateTransform([cam EXCEPT !.yaw = mod(cam.yaw + angle, TwoPi)])

\* camera.transform(point)
transform(cam, point) ==
    LET dx == point.x - cam.x
        dy == point.y - cam.y
        dz == point.z - cam.z
    IN [x |-> dx * cam.transform.cos - dy * cam.transform.sin,
        y |-> dy * cam.transform.cos + dx * cam.transform.sin,
        z |-> dz]

----------------------------------------------------------------------------
(* Point, Edge, Shape *)

Point(x, y, z) == [x |-> x, y |-> y, z |-> z]

UndefinedProjection == [kind |-> "undefined"]

NullProjection == [kind |-> "null"]

projectInclusive(cam, point) ==
    LET t == transform(cam, point)
    IN IF t.x >= 0
       THEN LET zScale == RDiv(Camera_focalLength, R(t.x))
                dx == RMul(R(t.y), zScale)
                dy == RMul(R(t.z), zScale)
            IN [kind |-> "object",
                x |-> RSub(RDiv(R(canvas.width), R(2)), dx),
                y |-> RSub(RDiv(RMul(R(canvas.height), R(2)), R(3)), dy)]
       ELSE NullProjection

\* Point.prototype.project: the value assigned to this.projection
project(cam, point) ==
    LET t == transform(cam, point)
    IN IF t.x > 0
       THEN LET zScale == RDiv(Camera_focalLength, R(t.x))
                dx == RMul(R(t.y), zScale)
                dy == RMul(R(t.z), zScale)
            IN [kind |-> "object",
                x |-> RSub(RDiv(R(canvas.width), R(2)), dx),
                y |-> RSub(RDiv(RMul(R(canvas.height), R(2)), R(3)), dy)]
       ELSE NullProjection

\* truthiness of a projection value
Truthy(p) == p.kind = "object"

\* An Edge holds two references into the owning shape's vertex list; a
\* reference is <<i>> (the i-th vertex, counted from 1) or <<>> (undefined)
Edge(from, to) == [from |-> from, to |-> to]

RECURSIVE edgesOf(_, _, _)
edgesOf(vs, e, i) ==
    IF i > Len(e[2]) THEN <<>>
    ELSE LET ref(k) == IF k + 1 \in 1..Len(vs) THEN <<k + 1>> ELSE <<>>
         IN <<Edge(ref(e[1]), ref(e[2][i]))>> \o edgesOf(vs, e, i + 1)

RECURSIVE allEdges(_, _, _)
allEdges(vs, edges, j) ==
    IF j > Len(edges) THEN <<>>
    ELSE edgesOf(vs, edges[j], 1) \o allEdges(vs, edges, j + 1)

\* new Shape(vertices, edges)
Shape(vertices, edges) ==
    LET vs == [i \in 1..Len(vertices) |->
                  Point(vertices[i][1], vertices[i][2], vertices[i][3])]
    IN [vertices |-> vs, edges |-> allEdges(vs, edges, 1)]

\* Edge.prototype.draw reads this.from.projection and this.to.projection:
\* it throws a TypeError when an endpoint is undefined
EdgeThrows(e) == e.from = <<>> \/ e.to = <<>>

Edge_drawEither(e, proj) ==
    Truthy(proj[e.from[1]]) \/ Truthy(proj[e.to[1]])

\* Edge.prototype.draw: TRUE when the segment is stroked
Edge_draw(e, proj) ==
    Truthy(proj[e.from[1]]) /\ Truthy(proj[e.to[1]])

\* Shape.prototype.draw, first pass: project every vertex
Shape_project(shape, cam) ==
    [i \in 1..Len(shape.vertices) |-> project(cam, shape.vertices[i])]

Shape_transformed(shape, cam) ==
    [i \in 1..Len(shape.vertices) |-> transform(cam, shape.vertices[i])]

RECURSIVE strokesFrom(_, _, _)
strokesFrom(shape, proj, i) ==
    IF i > Len(shape.edges) THEN <<>>
    ELSE (IF Edge_draw(shape.edges[i], proj)
          THEN <<[edge |-> i,
                  from |-> proj[shape.edges[i].from[1]],
                  to |-> proj[shape.edges[i].to[1]]]>>
          ELSE <<>>) \o strokesFrom(shape, proj, i + 1)

RECURSIVE firstThrowing(_, _)
firstThrowing(shape, i) ==
    IF i > Len(shape.edges) THEN 0
    ELSE IF EdgeThrows(shape.edges[i]) THEN i
    ELSE firstThrowing(shape, i + 1)

cube ==
    Shape(<< <<2400, 800, 400>>, <<2400, 400, 400>>,
             <<2400, 800, 0>>,   <<2400, 400, 0>>,
             <<2000, 800, 400>>, <<2000, 400, 400>>,
             <<2000, 800, 0>>,   <<2000, 400, 0>> >>,
          << <<0, <<1, 2, 4>>>>,
             <<3, <<1, 2, 7>>>>,
             <<5, <<1, 4, 7>>>>,
             <<6, <<2, 4, 7>>>> >>)

pyramid ==
    Shape(<< <<3200, -700, 400>>,
             <<3400, -500, 0>>, <<3400, -900, 0>>,
             <<3000, -500, 0>>, <<3000, -900, 0>> >>,
          << <<0, <<1, 2, 3, 4>>>>,
             <<1, <<2, 3>>>>,
             <<4, <<2, 3>>>> >>)

\* the shapes render() draws, in order
scene == <<cube, pyramid>>

----------------------------------------------------------------------------
(* Animation *)

Falsy(t) == ~t.defined \/ t.value = 0

\* then = then || now
thenOrNow(t, n) == IF Falsy(t) THEN n ELSE t.value

Call(op, secs, direction) ==
    [op |-> op, seconds |-> secs, direction |-> direction]

animateElseIf(kd, secs) ==
    IF "ArrowLeft" \in kd THEN <<Call("turn", secs, "left")>>
    ELSE IF "ArrowRight" \in kd THEN <<Call("turn", secs, "right")>>
    ELSE IF "ArrowUp" \in kd THEN <<Call("move", secs, "forwards")>>
    ELSE IF "ArrowDown" \in kd THEN <<Call("move", secs, "backwards")>>
    ELSE <<>>

animatePasted(kd, secs) ==
       (IF "ArrowLeft" \in kd
        THEN <<Call("turn", secs, "left")>> ELSE <<>>)
    \o (IF "ArrowRight" \in kd
        THEN <<Call("turn", secs, "left")>> ELSE <<>>)
    \o (IF "ArrowUp" \in kd
        THEN <<Call("move", secs, "forwards")>> ELSE <<>>)
    \o (IF "ArrowDown" \in kd
        THEN <<Call("move", secs, "backwards")>> ELSE <<>>)

\* the camera mutators animate invokes, in order, for the held keys kd
animateCalls(kd, secs) ==
       (IF "ArrowLeft" \in kd
        THEN <<Call("turn", secs, "left")>> ELSE <<>>)
    \o (IF "ArrowRight" \in kd
        THEN <<Call("turn", secs, "right")>> ELSE <<>>)
    \o (IF "ArrowUp" \in kd
        THEN <<Call("move", secs, "forwards")>> ELSE <<>>)
    \o (IF "ArrowDown" \in kd
        THEN <<Call("move", secs, "backwards")>> ELSE <<>>)

RECURSIVE applyCalls(_, _, _)
applyCalls(cam, cs, i) ==
    IF i > Len(cs) THEN cam
    ELSE applyCalls(IF cs[i].op = "turn"
                    THEN turn(cam, cs[i].seconds, cs[i].direction)
                    ELSE move(cam, cs[i].seconds, cs[i].direction),
                    cs, i + 1)

----------------------------------------------------------------------------
(* The program: init(), then key events and animation ticks *)

Init ==
    /\ then = [defined |-> FALSE, value |-> 0]
    /\ keysDown = {}
    /\ camera = Camera(0, 0, 200, 0)
    /\ projection = [s \in 1..Len(scene) |->
                        [i \in 1..Len(scene[s].vertices) |->
                            UndefinedProjection]]
    /\ transformed = [s \in 1..Len(scene) |->
                        [i \in 1..Len(scene[s].vertices) |->
                            Point(0, 0, 0)]]
    /\ strokes = [s \in 1..Len(scene) |-> <<>>]
    /\ calls = <<>>
    /\ seconds = 0
    /\ frame = 0
    /\ now = 0
    /\ prevNow = 0
    /\ physDown = [c \in CapturedCodes |-> FALSE]
    /\ shapeArgs = [vertices |-> <<>>, edges |-> <<>>]
    /\ shapeObj = [vertices |-> <<>>, edges |-> <<>>,
                   projection |-> <<>>, strokes |-> <<>>]
    /\ shapePc = "idle"

KeyDown(e) ==
    /\ keysDown' = keydown(keysDown, e)
    /\ physDown' = IF e.keyCode \in CapturedCodes
                   THEN [physDown EXCEPT ![e.keyCode] = TRUE]
                   ELSE physDown
    /\ UNCHANGED <<then, camera, projection, transformed, strokes, calls,
                   seconds, frame, now, prevNow>>
    /\ UNCHANGED shapeVars

KeyUp(e) ==
    /\ keysDown' = keyup(keysDown, e)
    /\ physDown' = IF e.keyCode \in CapturedCodes
                   THEN [physDown EXCEPT ![e.keyCode] = FALSE]
                   ELSE physDown
    /\ UNCHANGED <<then, camera, projection, transformed, strokes, calls,
                   seconds, frame, now, prevNow>>
    /\ UNCHANGED shapeVars

Animate(n) ==
    /\ frame < MaxTicks
    /\ LET then1 == thenOrNow(then, n)
           secs == n - then1
           cs == animateCalls(keysDown, secs)
           cam == applyCalls(camera, cs, 1)
       IN /\ seconds' = secs
          /\ then' = [defined |-> TRUE, value |-> n]
          /\ calls' = cs
          /\ camera' = cam
          /\ projection' = [s \in 1..Len(scene) |->
                               Shape_project(scene[s], cam)]
          /\ transformed' = [s \in 1..Len(scene) |->
                                Shape_transformed(scene[s], cam)]
          /\ strokes' = [s \in 1..Len(scene) |->
                            strokesFrom(scene[s], projection'[s], 1)]
    /\ frame' = frame + 1
    /\ prevNow' = now
    /\ now' = n
    /\ UNCHANGED <<keysDown, physDown>>
    /\ UNCHANGED shapeVars

FirstTick == frame = 0 /\ \E n \in FirstNows : Animate(n)

NextTick == frame > 0 /\ \E g \in TickGaps : Animate(now + g)

Next ==
    \/ \E e \in KeyEvents : KeyDown(e)
    \/ \E e \in KeyEvents : KeyUp(e)
    \/ FirstTick
    \/ NextTick

Spec == Init /\ [][Next]_vars

----------------------------------------------------------------------------
(* The Shape constructor on arbitrary vertex and edge data, followed by    *)
(* one Shape.draw under the initial camera                                 *)

VertexData == [i \in 1..(MaxVertices + 1) |-> <<2000 + 400 * i, 400 * i, 0>>]

Indices == 0..MaxVertices

SeqsUpTo(S, k) == UNION {[1..m -> S] : m \in 0..k}

EdgeData == {<<f, ts>> : f \in Indices, ts \in SeqsUpTo(Indices, MaxFanout)}

ShapeInputs ==
    [vertices : {SubSeq(VertexData, 1, m) : m \in 0..MaxVertices},
     edges : SeqsUpTo(EdgeData, MaxEdgeEntries)]

\* an edge entry names a vertex index that is not in the vertex list
Malformed(args) ==
    \E j \in 1..Len(args.edges) :
        \E i \in 1..Len(args.edges[j][2]) :
            \/ args.edges[j][1] >= Len(args.vertices)
            \/ args.edges[j][2][i] >= Len(args.vertices)

InitShape ==
    /\ then = [defined |-> FALSE, value |-> 0]
    /\ keysDown = {}
    /\ camera = Camera(0, 0, 200, 0)
    /\ projection = [s \in 1..Len(scene) |->
                        [i \in 1..Len(scene[s].vertices) |->
                            UndefinedProjection]]
    /\ transformed = [s \in 1..Len(scene) |->
                        [i \in 1..Len(scene[s].vertices) |->
                            Point(0, 0, 0)]]
    /\ strokes = [s \in 1..Len(scene) |-> <<>>]
    /\ calls = <<>>
    /\ seconds = 0
    /\ frame = 0
    /\ now = 0
    /\ prevNow = 0
    /\ physDown = [c \in CapturedCodes |-> FALSE]
    /\ shapeArgs \in ShapeInputs
    /\ shapeObj = [vertices |-> <<>>, edges |-> <<>>,
                   projection |-> <<>>, strokes |-> <<>>]
    /\ shapePc = "new"

\* new Shape(vertices, edges) returns
NewShape ==
    /\ shapePc = "new"
    /\ LET sh == Shape(shapeArgs.vertices, shapeArgs.edges)
       IN shapeObj' = [vertices |-> sh.vertices, edges |-> sh.edges,
                       projection |-> [i \in 1..Len(sh.vertices) |->
                                          UndefinedProjection],
                       strokes |-> <<>>]
    /\ shapePc' = "constructed"
    /\ UNCHANGED shapeArgs
    /\ UNCHANGED programVars

\* shape.draw() in a render tick, every edge's endpoints defined
DrawShape ==
    /\ shapePc = "constructed"
    /\ firstThrowing(shapeObj, 1) = 0
    /\ LET proj == Shape_project(shapeObj, camera)
       IN shapeObj' = [shapeObj EXCEPT
                          !.projection = proj,
                          !.strokes = strokesFrom(shapeObj, proj, 1)]
    /\ shapePc' = "drawn"
    /\ UNCHANGED shapeArgs
    /\ UNCHANGED programVars

\* shape.draw() in a render tick, stopped by the TypeError of the first
\* edge with an undefined endpoint
DrawShapeThrows ==
    /\ shapePc = "constructed"
    /\ firstThrowing(shapeObj, 1) > 0
    /\ LET proj == Shape_project(shapeObj, camera)
           k == firstThrowing(shapeObj, 1)
           before == [shapeObj EXCEPT !.edges = SubSeq(shapeObj.edges, 1, k - 1)]
       IN shapeObj' = [shapeObj EXCEPT
                          !.projection = proj,
                          !.strokes = strokesFrom(before, proj, 1)]
    /\ shapePc' = "TypeError"
    /\ UNCHANGED shapeArgs
    /\ UNCHANGED programVars

NextShape ==
    \/ NewShape
    \/ DrawShape
    \/ DrawShapeThrows

SpecShape == InitShape /\ [][NextShape]_vars

----------------------------------------------------------------------------
(* Properties *)

Vertices(s) == 1..Len(scene[s].vertices)

Stroked(s, i) == \E k \in 1..Len(strokes[s]) : strokes[s][k].edge = i

NumCalls(cs, op, direction) ==
    Cardinality({i \in 1..Len(cs) :
                    cs[i].op = op /\ cs[i].direction = direction})

NumOp(cs, op) == Cardinality({i \in 1..Len(cs) : cs[i].op = op})

\* the camera command of each directional key
DirectionalKeys == {"ArrowLeft", "ArrowRight", "ArrowUp", "ArrowDown"}

CommandOp(k) == IF k \in {"ArrowLeft", "ArrowRight"} THEN "turn" ELSE "move"

CommandDirection(k) ==
    CASE k = "ArrowLeft" -> "left"
      [] k = "ArrowRight" -> "right"
      [] k = "ArrowUp" -> "forwards"
      [] k = "ArrowDown" -> "backwards"

\* C1: after every frame, an edge of a shape is stroked if and only if both
\* of its endpoint vertices hold a non-null projection computed in that
\* frame, the stroke joins exactly these two projections, and an edge with
\* an endpoint at depth <= 0 is not stroked.
C1_EdgeDrawnIffBothProjected ==
    frame > 0 =>
        \A s \in 1..Len(scene) :
            /\ \A i \in 1..Len(scene[s].edges) :
                  LET e == scene[s].edges[i]
                      pf == projection[s][e.from[1]]
                      pt == projection[s][e.to[1]]
                  IN /\ Stroked(s, i) <=>
                            (pf.kind = "object" /\ pt.kind = "object")
                     /\ (\/ transformed[s][e.from[1]].x <= 0
                         \/ transformed[s][e.to[1]].x <= 0) => ~Stroked(s, i)
            /\ \A k \in 1..Len(strokes[s]) :
                  LET e == scene[s].edges[strokes[s][k].edge]
                  IN /\ strokes[s][k].from = projection[s][e.from[1]]
                     /\ strokes[s][k].to = projection[s][e.to[1]]

\* a frame in which one shape has a stroked edge and an edge skipped because
\* exactly one of its endpoints has no projection
C1_Witness ==
    /\ frame > 0
    /\ \E s \in 1..Len(scene) :
          /\ \E i \in 1..Len(scene[s].edges) : Stroked(s, i)
          /\ \E i \in 1..Len(scene[s].edges) :
                LET e == scene[s].edges[i]
                IN /\ ~Stroked(s, i)
                   /\ projection[s][e.from[1]].kind = "object"
                   /\ projection[s][e.to[1]].kind = "null"

\* C2: after every frame, a vertex's projection is null exactly when its
\* camera-space depth (transformed.x) is <= 0, and otherwise it is the
\* screen point (width/2 - y*focalLength/depth,
\* height*2/3 - z*focalLength/depth).
C2_ProjectionNullIffBehind ==
    frame > 0 =>
        \A s \in 1..Len(scene) : \A i \in Vertices(s) :
            LET t == transformed[s][i]
                p == projection[s][i]
            IN /\ (p.kind = "null") <=> (t.x <= 0)
               /\ (p.kind = "object") <=> (t.x > 0)
               /\ t.x > 0 =>
                    /\ REq(p.x, RSub(RDiv(R(canvas.width), R(2)),
                                     RDiv(RMul(R(t.y), Camera_focalLength),
                                          R(t.x))))
                    /\ REq(p.y, RSub(RDiv(R(canvas.height * 2), R(3)),
                                     RDiv(RMul(R(t.z), Camera_focalLength),
                                          R(t.x))))

\* a frame with a vertex exactly on the camera plane, one behind it and one
\* in front of it and off the view axis
C2_Witness ==
    /\ frame > 0
    /\ \E s \in 1..Len(scene) : \E i \in Vertices(s) :
          transformed[s][i].x = 0
    /\ \E s \in 1..Len(scene) : \E i \in Vertices(s) :
          transformed[s][i].x < 0
    /\ \E s \in 1..Len(scene) : \E i \in Vertices(s) :
          /\ transformed[s][i].x > 0
          /\ transformed[s][i].y # 0
          /\ transformed[s][i].z # 0

\* C3: the camera's yaw is always in [0, 2*pi).
C3_YawInRange == camera.yaw >= 0 /\ camera.yaw < TwoPi

\* a right turn from yaw 0 has wrapped the yaw
C3_Witness ==
    /\ NumCalls(calls, "turn", "right") = 1
    /\ NumCalls(calls, "turn", "left") = 0
    /\ seconds > 0
    /\ camera.yaw = TwoPi - QuarterTurn

\* C4: a tick invokes, for each directional key, its camera command once if
\* the key is held when the tick runs and not at all otherwise, every time
\* with the tick's elapsed time, and the camera after the tick is the result
\* of these commands.
C4_TickInvokesHeldKeys ==
    [][frame' # frame =>
          /\ \A k \in DirectionalKeys :
                NumCalls(calls', CommandOp(k), CommandDirection(k)) =
                    IF k \in keysDown THEN 1 ELSE 0
          /\ Len(calls') = Cardinality(keysDown \cap DirectionalKeys)
          /\ \A i \in 1..Len(calls') : calls'[i].seconds = seconds'
          /\ camera' = applyCalls(camera, calls', 1)]_vars

\* a tick with time elapsed that turned and moved the camera
C4_Witness ==
    /\ seconds > 0
    /\ NumOp(calls, "turn") = 1
    /\ NumCalls(calls, "move", "forwards") = 1
    /\ NumCalls(calls, "move", "backwards") = 0

\* C5, as stated: a frame applies at most one move and at most one turn.
C5_AtMostOneMoveOneTurn ==
    NumOp(calls, "turn") <= 1 /\ NumOp(calls, "move") <= 1

\* C5, amended: a frame applies at most one command per direction (left,
\* right, forwards, backwards), hence at most two turns and two moves.
C5_AtMostOnePerDirection ==
    /\ \A k \in DirectionalKeys :
          NumCalls(calls, CommandOp(k), CommandDirection(k)) <= 1
    /\ NumOp(calls, "turn") <= 2
    /\ NumOp(calls, "move") <= 2
    /\ Len(calls) = NumOp(calls, "turn") + NumOp(calls, "move")

\* a frame that turned the camera twice
C5_Witness == NumOp(calls, "turn") = 2 /\ seconds > 0

\* C6: the first tick uses elapsed time 0 and every later tick the gap to
\* the previous tick's timestamp.
C6_ElapsedIsGap ==
    /\ frame = 1 => seconds = 0
    /\ frame > 1 => seconds = now - prevNow

C8_OnlyCapturedKeys ==
    keysDown \subseteq {keysToCapture[c] : c \in DOMAIN keysToCapture}

\* C9: a Shape whose edge data names a vertex index outside its vertex list
\* is never constructed.
C9_MalformedNeverConstructed ==
    Malformed(shapeArgs) => shapePc = "new"

\* C10: the coefficients captured by camera.transform are the cosine and
\* sine of minus the current yaw, and the points transformed in a frame are
\* the scene's vertices translated by the current camera position and
\* rotated by minus the current yaw.
C10_TransformNeverStale ==
    /\ camera.transform.cos = Math_cos(-camera.yaw)
    /\ camera.transform.sin = Math_sin(-camera.yaw)
    /\ frame > 0 =>
          \A s \in 1..Len(scene) : \A i \in Vertices(s) :
              LET v == scene[s].vertices[i]
                  dx == v.x - camera.x
                  dy == v.y - camera.y
              IN transformed[s][i] =
                    [x |-> dx * Math_cos(-camera.yaw) - dy * Math_sin(-camera.yaw),
                     y |-> dy * Math_cos(-camera.yaw) + dx * Math_sin(-camera.yaw),
                     z |-> v.z - camera.z]

\* a frame rendered after the camera has turned and moved
C10_Witness ==
    /\ frame > 0
    /\ camera.yaw # 0
    /\ camera.x # 0
    /\ camera.y # 0

====
